---- MODULE Spec2Model ----
(***************************************************************************)
(* Model of src/pages/index.tsx: the geofenced capture form (Form) and its *)
(* camera sub-component (CameraCapture).                                   *)
(*                                                                         *)
(* Numbers.  The source computes in IEEE doubles; the model computes in    *)
(* integer fixed point, with the same sequence of operations:              *)
(*   coordinates            micro-degrees (1e-6 degree)                    *)
(*   angles, sin, sqrt(a)   nano-radians  (1e-9)                           *)
(*   a (haversine term)     1e-18                                          *)
(*   cos, sqrt(1 - a)       1e-4                                           *)
(*   distances              decimetres (0.1 m)                             *)
(* Rounding is toward zero on the magnitude, so that every operation is    *)
(* odd/even in its argument exactly as the IEEE operation is.              *)
(***************************************************************************)
EXTENDS Integers, Sequences, FiniteSets, TLC

----------------------------------------------------------------------------
(* Fixed-point helpers *)

Abs(x) == IF x < 0 THEN -x ELSE x

\* x / d rounded toward zero (sign-symmetric, like IEEE rounding)
TDiv(x, d) == IF x < 0 THEN -((-x) \div d) ELSE x \div d

\* (x * m) / d rounded toward zero, without forming the product x * m
MulDiv(x, m, d) ==
    LET ax == Abs(x)
        q  == (ax \div d) * m + ((ax % d) * m) \div d
    IN  IF x < 0 THEN -q ELSE q

RECURSIVE SqrtSearch(_, _, _)
SqrtSearch(n, lo, hi) ==
    IF lo >= hi THEN lo
    ELSE LET mid == (lo + hi + 1) \div 2
         IN  IF mid * mid <= n THEN SqrtSearch(n, mid, hi)
                               ELSE SqrtSearch(n, lo, mid - 1)

\* Math.sqrt on integers: the largest r with r * r <= n
Sqrt(n) == SqrtSearch(n, 0, 46340)

\* Math.PI, scaled by 1e4
PI == 31416

\* toRad: micro-degrees -> nano-radians, (x * Math.PI) / 180
\* (the factor 10 is 1e4 (scale of PI) * 1e6 (micro-degrees) / 1e9 (nano-radians))
toRad(x) == MulDiv(x, PI, 180 * 10)

\* Math.sin of an angle in nano-radians, result scaled 1e9: x - x^3/6
\* (series cut after the cubic term: used on half-differences, |x| < 1e6)
Sin(x) ==
    LET k == TDiv(x, 1000)
    IN  x - TDiv(TDiv(k * k * k, 6), 1000000000)

\* Math.cos of an angle in nano-radians, result scaled 1e4:
\* 1 - y^2/2 + y^4/24 - y^6/720 with y the angle scaled 1e4
Cos(x) ==
    LET y  == Abs(x) \div 100000
        y2 == (y * y) \div 10000
        y4 == (y2 * y2) \div 10000
        y6 == (y4 * y2) \div 10000
    IN  10000 - y2 \div 2 + y4 \div 24 - y6 \div 720

\* Math.atan2(y, x) for x > 0: y scaled 1e9, x scaled 1e4, result in
\* nano-radians: t - t^3/3 with t = y / x
Atan2(y, x) ==
    LET t == TDiv(y * 10000, x)
        k == TDiv(t, 1000)
    IN  t - TDiv(TDiv(k * k * k, 3), 1000000000)

----------------------------------------------------------------------------
(* Module constants *)

GEOFENCE_RADIUS_METERS == 150

\* imported from ../geofenceConfig; micro-degrees
GEOFENCE_CENTER == [lat |-> 0, lon |-> 0]

\* mean Earth radius, metres
R == 6371000

\* the longitude difference taken as lon2 alone
haversine_DropsLon1(lat1, lon1, lat2, lon2) ==
    LET dLat == toRad(lat2 - lat1)
        dLon == toRad(lon2)
        sLat == Sin(TDiv(dLat, 2))
        sLon == Sin(TDiv(dLon, 2))
        a    == sLat * sLat
                + TDiv(TDiv(Cos(toRad(lat1)) * Cos(toRad(lat2)), 10000)
                       * sLon, 10000) * sLon
        c    == 2 * Atan2(Sqrt(a), Sqrt(100000000 - (a \div 100000) \div 100000))
    IN  ((R \div 1000) * c) \div 100000

\* haversine: great-circle distance between (lat1, lon1) and (lat2, lon2),
\* arguments in micro-degrees, result in decimetres
haversine(lat1, lon1, lat2, lon2) ==
    LET dLat == toRad(lat2 - lat1)
        dLon == toRad(lon2 - lon1)
        sLat == Sin(TDiv(dLat, 2))
        sLon == Sin(TDiv(dLon, 2))
        a    == sLat * sLat
                + TDiv(TDiv(Cos(toRad(lat1)) * Cos(toRad(lat2)), 10000)
                       * sLon, 10000) * sLon
        c    == 2 * Atan2(Sqrt(a), Sqrt(100000000 - (a \div 100000) \div 100000))
    IN  ((R \div 1000) * c) \div 100000

\* Math.round of a distance in decimetres: the nearest whole metre
Round(dist) == (dist + 5) \div 10

\* Number.prototype.toFixed(5) of a coordinate in micro-degrees: the nearest
\* multiple of 1e-5 degree
toFixed5(x) == IF x < 0 THEN -(((-x + 5) \div 10) * 10) ELSE ((x + 5) \div 10) * 10

----------------------------------------------------------------------------
(* Bounds and inputs *)

\* position requests issued per page load (page load + retries)
MaxRequests == 2

\* images captured per page load
MaxImages == 2

\* nullable values: null is the empty tuple, a value v is <<v>>
Null == <<>>
Some(v) == <<v>>

\* texts are sequences of characters
Whitespace == {" "}

\* what the user types into a field
InputTexts == {<<>>, <<" ">>, <<" ", "a">>, <<"a", "@", "a">>}

\* what the position source reports: at the centre, on the boundary
\* (exactly 150.0 m), just outside (150.1 m)
Positions == {[lat |-> 0, lon |-> 0], [lat |-> 1349, lon |-> 20], [lat |-> 0, lon |-> 1350]}

----------------------------------------------------------------------------
(* State *)

VARIABLES
    \* Form (useState)
    fields, images, location, geoAllowed, geoError, submitting, geoLoading,
    \* CameraCapture (useState, useRef, the effect's registered cleanup)
    stream, error, capturing, srcObject, cleanup,
    \* platform: position requests, the getUserMedia promise, the media
    \* streams of the document, pending setTimeout callbacks, React lifecycle
    requests, userMedia, streams, timers, phase,
    \* one call of haversine on its own: its arguments and what it returned
    call

formVars == <<fields, images, location, geoAllowed, geoError, submitting, geoLoading>>
cameraVars == <<stream, error, capturing, srcObject, cleanup>>
vars == <<fields, images, location, geoAllowed, geoError, submitting, geoLoading,
          stream, error, capturing, srcObject, cleanup,
          requests, userMedia, streams, timers, phase, call>>

RECURSIVE trimStart(_)
trimStart(s) ==
    IF s = <<>> THEN s
    ELSE IF Head(s) \in Whitespace THEN trimStart(Tail(s)) ELSE s

RECURSIVE trimEnd(_)
trimEnd(s) ==
    IF s = <<>> THEN s
    ELSE IF s[Len(s)] \in Whitespace THEN trimEnd(SubSeq(s, 1, Len(s) - 1)) ELSE s

\* String.prototype.trim
trim(s) == trimEnd(trimStart(s))

\* the browser's check of <input type="email" required>: local@domain
validEmail(s) ==
    /\ \A i \in 1..Len(s) : s[i] \notin Whitespace
    /\ \E i \in 2..(Len(s) - 1) :
          s[i] = "@" /\ \A j \in 1..Len(s) : s[j] = "@" => j = i

\* isFormValid with the trim calls left out
isFormValid_NoTrim ==
    /\ fields.name # <<>>
    /\ fields.email # <<>>
    /\ fields.comments # <<>>
    /\ Len(images) > 0

isFormValid ==
    /\ trim(fields.name) # <<>>
    /\ trim(fields.email) # <<>>
    /\ trim(fields.comments) # <<>>
    /\ Len(images) > 0

\* the disabled attribute without the submitting flag
submitDisabled_IgnoresSubmitting == ~geoAllowed \/ ~isFormValid

\* the disabled attribute without the geofence flag
submitDisabled_IgnoresGeofence == submitting \/ ~isFormValid

\* the Submit button's disabled attribute
submitDisabled == ~geoAllowed \/ submitting \/ ~isFormValid

\* the status line under the images
statusLine ==
    IF geoLoading THEN "Getting location..."
    ELSE IF geoError # "" THEN geoError ELSE "Location OK"

PendingRequest == [status |-> "pending", lat |-> 0, lon |-> 0]

Init ==
    /\ fields = [name |-> <<>>, email |-> <<>>, comments |-> <<>>]
    /\ images = <<>>
    /\ location = Null
    /\ geoAllowed = FALSE
    /\ geoError = ""
    /\ submitting = FALSE
    /\ geoLoading = FALSE
    /\ stream = Null
    /\ error = ""
    /\ capturing = FALSE
    /\ srcObject = Null
    /\ cleanup = Null
    /\ requests = <<>>
    /\ userMedia = "idle"
    /\ streams = <<>>
    /\ timers = 0
    /\ phase = "rendered"
    /\ call = Null

----------------------------------------------------------------------------
(* Form *)

\* getLocation without setGeoError('')
getLocation_KeepsError ==
    /\ geoLoading' = TRUE
    /\ geoError' = geoError
    /\ requests' = Append(requests, PendingRequest)

\* Form.getLocation, up to the call of getCurrentPosition: the callbacks are
\* the actions positionSuccess and positionError
getLocation ==
    /\ geoLoading' = TRUE
    /\ geoError' = ""
    /\ requests' = Append(requests, PendingRequest)

\* useEffect(() => { getLocation(); }, []) after the first render.  The
\* CameraCapture effect also runs and returns at once (capturing is false).
mountEffect ==
    /\ phase = "rendered"
    /\ phase' = "mounted"
    /\ UNCHANGED call
    /\ getLocation
    /\ UNCHANGED <<fields, images, location, geoAllowed, submitting>>
    /\ UNCHANGED <<cameraVars, userMedia, streams, timers>>

\* the Retry Location button
retryLocation ==
    /\ phase = "mounted"
    /\ Len(requests) < MaxRequests
    /\ getLocation
    /\ UNCHANGED <<fields, images, location, geoAllowed, submitting>>
    /\ UNCHANGED <<cameraVars, userMedia, streams, timers, phase, call>>

\* the comparison turned round
insideGeofence_Inverted(dist) == dist >= GEOFENCE_RADIUS_METERS * 10

\* the membership test with an exclusive boundary
insideGeofence_Exclusive(dist) == dist < GEOFENCE_RADIUS_METERS * 10

\* dist <= GEOFENCE_RADIUS_METERS, dist in decimetres
insideGeofence(dist) == dist <= GEOFENCE_RADIUS_METERS * 10

\* the message without Math.round
outOfGeofenceMessage_Unrounded(dist) ==
    "You are " \o ToString(dist) \o "m from the allowed location."

\* `You are ${Math.round(dist)}m from the allowed location.`
outOfGeofenceMessage(dist) ==
    "You are " \o ToString(Round(dist)) \o "m from the allowed location."

\* getCurrentPosition's success callback for request i.  The platform may
\* complete outstanding requests in any order.  After the component is
\* unmounted React drops the state updates.
positionSuccess(i, pos) ==
    /\ phase # "rendered"
    /\ requests[i].status = "pending"
    /\ requests' = [requests EXCEPT ![i] = [status |-> "success", lat |-> pos.lat, lon |-> pos.lon]]
    /\ IF phase = "mounted"
       THEN LET lat  == pos.lat
                lon  == pos.lon
                dist == haversine(lat, lon, GEOFENCE_CENTER.lat, GEOFENCE_CENTER.lon)
            IN  /\ location' = Some([lat |-> lat, lon |-> lon])
                /\ geoAllowed' = insideGeofence(dist)
                /\ geoError' = IF insideGeofence(dist) THEN "" ELSE outOfGeofenceMessage(dist)
                /\ geoLoading' = FALSE
       ELSE UNCHANGED <<location, geoAllowed, geoError, geoLoading>>
    /\ UNCHANGED <<fields, images, submitting>>
    /\ UNCHANGED <<cameraVars, userMedia, streams, timers, phase, call>>

\* the error callback without setGeoAllowed(false)
positionError_KeepsAllowed(i) ==
    /\ phase # "rendered"
    /\ requests[i].status = "pending"
    /\ requests' = [requests EXCEPT ![i] = [status |-> "error", lat |-> 0, lon |-> 0]]
    /\ IF phase = "mounted"
       THEN /\ geoError' = "Geolocation permission denied or unavailable. Please enable location and try again."
            /\ geoLoading' = FALSE
       ELSE UNCHANGED <<geoError, geoLoading>>
    /\ UNCHANGED <<fields, images, location, geoAllowed, submitting>>
    /\ UNCHANGED <<cameraVars, userMedia, streams, timers, phase, call>>

\* the error callback also forgetting the stored coordinate
positionError_ClearsLocation(i) ==
    /\ phase # "rendered"
    /\ requests[i].status = "pending"
    /\ requests' = [requests EXCEPT ![i] = [status |-> "error", lat |-> 0, lon |-> 0]]
    /\ IF phase = "mounted"
       THEN /\ geoError' = "Geolocation permission denied or unavailable. Please enable location and try again."
            /\ geoAllowed' = FALSE
            /\ geoLoading' = FALSE
            /\ location' = Null
       ELSE UNCHANGED <<geoError, geoAllowed, geoLoading, location>>
    /\ UNCHANGED <<fields, images, submitting>>
    /\ UNCHANGED <<cameraVars, userMedia, streams, timers, phase, call>>

\* the error callback without its setGeoError
positionError_NoMessage(i) ==
    /\ phase # "rendered"
    /\ requests[i].status = "pending"
    /\ requests' = [requests EXCEPT ![i] = [status |-> "error", lat |-> 0, lon |-> 0]]
    /\ IF phase = "mounted"
       THEN /\ geoAllowed' = FALSE
            /\ geoLoading' = FALSE
       ELSE UNCHANGED <<geoAllowed, geoLoading>>
    /\ UNCHANGED <<fields, images, location, submitting, geoError>>
    /\ UNCHANGED <<cameraVars, userMedia, streams, timers, phase, call>>

\* the error callback asking for the position again by itself
positionError_AutoRetry(i) ==
    /\ phase # "rendered"
    /\ requests[i].status = "pending"
    /\ requests' = IF phase = "mounted" /\ Len(requests) < MaxRequests
                   THEN Append([requests EXCEPT ![i] = [status |-> "error", lat |-> 0, lon |-> 0]],
                               PendingRequest)
                   ELSE [requests EXCEPT ![i] = [status |-> "error", lat |-> 0, lon |-> 0]]
    /\ IF phase = "mounted"
       THEN /\ geoError' = ""
            /\ geoAllowed' = FALSE
            /\ geoLoading' = TRUE
       ELSE UNCHANGED <<geoError, geoAllowed, geoLoading>>
    /\ UNCHANGED <<fields, images, location, submitting>>
    /\ UNCHANGED <<cameraVars, userMedia, streams, timers, phase, call>>

\* getCurrentPosition's error callback for request i
positionError(i) ==
    /\ phase # "rendered"
    /\ requests[i].status = "pending"
    /\ requests' = [requests EXCEPT ![i] = [status |-> "error", lat |-> 0, lon |-> 0]]
    /\ IF phase = "mounted"
       THEN /\ geoError' = "Geolocation permission denied or unavailable. Please enable location and try again."
            /\ geoAllowed' = FALSE
            /\ geoLoading' = FALSE
       ELSE UNCHANGED <<geoError, geoAllowed, geoLoading>>
    /\ UNCHANGED <<fields, images, location, submitting>>
    /\ UNCHANGED <<cameraVars, userMedia, streams, timers, phase, call>>

\* onChange of the name and email inputs: e.target.name is "name" or "email"
handleFieldChange(name, value) ==
    /\ phase = "mounted"
    /\ fields' = [fields EXCEPT ![name] = value]
    /\ UNCHANGED <<images, location, geoAllowed, geoError, submitting, geoLoading>>
    /\ UNCHANGED <<cameraVars, requests, userMedia, streams, timers, phase, call>>

\* onChange of the message textarea
messageChange(value) ==
    /\ phase = "mounted"
    /\ fields' = [fields EXCEPT !.comments = value]
    /\ UNCHANGED <<images, location, geoAllowed, geoError, submitting, geoLoading>>
    /\ UNCHANGED <<cameraVars, requests, userMedia, streams, timers, phase, call>>

\* canvas.toDataURL('image/jpeg', 0.92): "data:image/jpeg;base64,..." with the
\* stamped coordinate in its pixels, or "data:," for a canvas without area
\* (the video has no frame yet)
toDataURL(hasFrame, loc) ==
    IF hasFrame
    THEN [mediaType |-> "image/jpeg", lat |-> toFixed5(loc.lat), lon |-> toFixed5(loc.lon)]
    ELSE [mediaType |-> "", lat |-> 0, lon |-> 0]

\* the test reduced to `img`: any non-empty URL passes
startsWithDataImage_AnyUrl(img) == TRUE

\* img && img.startsWith('data:image')
startsWithDataImage(img) == img.mediaType \in {"image/jpeg", "image/png"}

\* the new image put in front: [img, ...prev]
formHandleCapture_Prepend(prev, img) ==
    IF startsWithDataImage(img) THEN <<img>> \o prev ELSE prev

\* Form.handleCapture as a function of the list: append img when it is a
\* data:image URL
formHandleCapture(prev, img) ==
    IF startsWithDataImage(img) THEN Append(prev, img) ELSE prev

\* onSubmit of the form: the browser raises it only through the enabled Submit
\* button and only when the required/type=email constraints hold
handleSubmit ==
    /\ phase = "mounted"
    /\ ~submitDisabled
    /\ fields.name # <<>> /\ validEmail(fields.email) /\ fields.comments # <<>>
    /\ submitting' = TRUE
    /\ timers' = timers + 1
    /\ UNCHANGED <<fields, images, location, geoAllowed, geoError, geoLoading>>
    /\ UNCHANGED <<cameraVars, requests, userMedia, streams, phase, call>>

\* the page after window.location.reload(): a new document, the old one's
\* state, requests, timers and media streams are gone
reload ==
    /\ fields' = [name |-> <<>>, email |-> <<>>, comments |-> <<>>]
    /\ images' = <<>>
    /\ location' = Null
    /\ geoAllowed' = FALSE
    /\ geoError' = ""
    /\ submitting' = FALSE
    /\ geoLoading' = FALSE
    /\ stream' = Null
    /\ error' = ""
    /\ capturing' = FALSE
    /\ srcObject' = Null
    /\ cleanup' = Null
    /\ requests' = <<>>
    /\ userMedia' = "idle"
    /\ streams' = <<>>
    /\ timers' = 0
    /\ phase' = "rendered"
    /\ UNCHANGED call

\* the callback without window.location.reload()
submitTimeout_NoReload ==
    /\ timers > 0
    /\ timers' = timers - 1
    /\ submitting' = IF phase = "mounted" THEN FALSE ELSE submitting
    /\ UNCHANGED <<fields, images, location, geoAllowed, geoError, geoLoading>>
    /\ UNCHANGED <<cameraVars, requests, userMedia, streams, phase, call>>

\* the setTimeout callback of handleSubmit: alert, setSubmitting(false), reload
submitTimeout ==
    /\ timers > 0
    /\ reload

----------------------------------------------------------------------------
(* CameraCapture *)

\* the button left in place while capturing: every press asks for a stream
openLiveCamera_ButtonStays ==
    /\ phase = "mounted"
    /\ userMedia # "pending"
    /\ Len(streams) < 2
    /\ capturing' = TRUE
    /\ userMedia' = "pending"
    /\ cleanup' = Some(stream)
    /\ UNCHANGED <<formVars, stream, error, srcObject, requests, streams, timers, phase, call>>

\* the Open Live Camera button: setCapturing(true); after the render the
\* effect on [capturing] runs, calls getUserMedia and returns its cleanup,
\* a closure over the stream of that render
openLiveCamera ==
    /\ phase = "mounted"
    /\ ~capturing
    /\ capturing' = TRUE
    /\ userMedia' = "pending"
    /\ cleanup' = Some(stream)
    /\ UNCHANGED <<formVars, stream, error, srcObject, requests, streams, timers, phase, call>>

\* getUserMedia resolves with a new stream s: setStream(s), and the video
\* element (rendered while capturing) gets it.  After unmount the state
\* update is dropped and videoRef.current is null.
userMediaResolve ==
    /\ userMedia = "pending"
    /\ userMedia' = "resolved"
    /\ streams' = Append(streams, "live")
    /\ IF phase = "mounted"
       THEN /\ stream' = Some(Len(streams) + 1)
            /\ srcObject' = Some(Len(streams) + 1)
       ELSE UNCHANGED <<stream, srcObject>>
    /\ UNCHANGED <<formVars, error, capturing, cleanup, requests, timers, phase, call>>

\* getUserMedia rejects: the catch branch
userMediaReject ==
    /\ userMedia = "pending"
    /\ userMedia' = "rejected"
    /\ error' = IF phase = "mounted" THEN "Camera access denied or unavailable." ELSE error
    /\ UNCHANGED <<formVars, stream, capturing, srcObject, cleanup, requests, streams, timers, phase, call>>

\* disabled attribute of the Capture Photo button
captureDisabled == location = Null

\* handleCapture testing videoRef.current only, the stamp reading location?.lat
cameraHandleCapture_NoLocationTest ==
    /\ phase = "mounted"
    /\ capturing
    /\ Len(images) < MaxImages
    /\ images' = formHandleCapture(images,
                    toDataURL(srcObject # Null,
                              IF location = Null THEN [lat |-> 0, lon |-> 0] ELSE location[1]))
    /\ UNCHANGED <<fields, location, geoAllowed, geoError, submitting, geoLoading>>
    /\ UNCHANGED <<cameraVars, requests, userMedia, streams, timers, phase, call>>

\* CameraCapture.handleCapture, with its call of onCapture (Form.handleCapture).
\* The video element exists whenever the button does (both render only
\* while capturing), so videoRef.current is non-null here.
cameraHandleCapture ==
    /\ phase = "mounted"
    /\ capturing
    /\ Len(images) < MaxImages
    /\ IF location = Null
       THEN UNCHANGED images
       ELSE images' = formHandleCapture(images, toDataURL(srcObject # Null, location[1]))
    /\ UNCHANGED <<fields, location, geoAllowed, geoError, submitting, geoLoading>>
    /\ UNCHANGED <<cameraVars, requests, userMedia, streams, timers, phase, call>>

\* the cleanup returned by the effect: stops the tracks of the stream it
\* closed over
runCleanup ==
    IF cleanup # Null /\ cleanup[1] # Null
    THEN streams' = [streams EXCEPT ![cleanup[1][1]] = "ended"]
    ELSE UNCHANGED streams

\* React tears the page component down (client-side navigation away): the
\* effect cleanups run; the document, its requests and timers live on
unmount ==
    /\ phase = "mounted"
    /\ phase' = "unmounted"
    /\ runCleanup
    /\ UNCHANGED <<formVars, cameraVars, requests, userMedia, timers, call>>

----------------------------------------------------------------------------

Next ==
    \/ mountEffect
    \/ retryLocation
    \/ \E i \in 1..Len(requests), pos \in Positions : positionSuccess(i, pos)
    \/ \E i \in 1..Len(requests) : positionError(i)
    \/ \E name \in {"name", "email"}, value \in InputTexts : handleFieldChange(name, value)
    \/ \E value \in InputTexts : messageChange(value)
    \/ handleSubmit
    \/ submitTimeout
    \/ openLiveCamera
    \/ userMediaResolve
    \/ userMediaReject
    \/ cameraHandleCapture
    \/ unmount

Spec == Init /\ [][Next]_vars

----------------------------------------------------------------------------
(* haversine on its own *)

\* coordinates in micro-degrees: latitudes on the equator, at 60 N and at
\* 45 S, each with points up to 150 m apart; longitudes likewise
Latitudes ==
    {base + off : base \in {0, 60000000, -45000000}, off \in {0, 20, 1349, -1350}}
Longitudes == {0, 20, 1350, -1349}

\* two points less than 0.003 degrees of latitude apart
Calls ==
    {c \in {[lat1 |-> la1, lon1 |-> lo1, lat2 |-> la2, lon2 |-> lo2,
             there |-> Null, back |-> Null] :
                la1 \in Latitudes, lo1 \in Longitudes,
                la2 \in Latitudes, lo2 \in Longitudes} :
        Abs(c.lat2 - c.lat1) < 3000}

pageVars == <<formVars, cameraVars, requests, userMedia, streams, timers, phase>>

InitHaversine ==
    /\ call \in Calls
    /\ fields = [name |-> <<>>, email |-> <<>>, comments |-> <<>>]
    /\ images = <<>>
    /\ location = Null
    /\ geoAllowed = FALSE
    /\ geoError = ""
    /\ submitting = FALSE
    /\ geoLoading = FALSE
    /\ stream = Null
    /\ error = ""
    /\ capturing = FALSE
    /\ srcObject = Null
    /\ cleanup = Null
    /\ requests = <<>>
    /\ userMedia = "idle"
    /\ streams = <<>>
    /\ timers = 0
    /\ phase = "rendered"

\* haversine(lat1, lon1, lat2, lon2)
callThere ==
    /\ call.there = Null
    /\ call' = [call EXCEPT !.there =
                    Some(haversine(call.lat1, call.lon1, call.lat2, call.lon2))]
    /\ UNCHANGED pageVars

\* haversine(lat2, lon2, lat1, lon1)
callBack ==
    /\ call.back = Null
    /\ call' = [call EXCEPT !.back =
                    Some(haversine(call.lat2, call.lon2, call.lat1, call.lon1))]
    /\ UNCHANGED pageVars

NextHaversine ==
    \/ callThere
    \/ callBack

SpecHaversine == InitHaversine /\ [][NextHaversine]_vars

----------------------------------------------------------------------------
(* Vocabulary of the properties *)

\* a text with nothing but whitespace in it
Blank(s) == \A i \in 1..Len(s) : s[i] \in Whitespace

\* the distance-to-centre of a stored location, in decimetres
distanceOf(loc) ==
    haversine(loc[1].lat, loc[1].lon, GEOFENCE_CENTER.lat, GEOFENCE_CENTER.lon)

withinRadius(loc) == loc # Null /\ distanceOf(loc) <= GEOFENCE_RADIUS_METERS * 10

checkFailed(loc) == loc # Null /\ distanceOf(loc) > GEOFENCE_RADIUS_METERS * 10

\* the last computed distance is that of the stored location
lastDistance == distanceOf(location)

lastDistanceWithinRadius == withinRadius(location)

lastDistanceCheckFailed == checkFailed(location)

centrePoint == [lat |-> 0, lon |-> 0]
boundaryPoint == [lat |-> 1349, lon |-> 20]
outsidePoint == [lat |-> 0, lon |-> 1350]

deniedMessage == "Geolocation permission denied or unavailable. Please enable location and try again."

\* this step is the success (error) callback of request i into the mounted form
successStep(i) ==
    /\ phase = "mounted"
    /\ Len(requests') = Len(requests)
    /\ requests[i].status = "pending"
    /\ requests'[i].status = "success"

errorStep(i) ==
    /\ phase = "mounted"
    /\ Len(requests') = Len(requests)
    /\ requests[i].status = "pending"
    /\ requests'[i].status = "error"

noRequestOutstanding == \A i \in 1..Len(requests) : requests[i].status # "pending"

----------------------------------------------------------------------------
(* C1 *)

\* C1, as stated: the Submit button is enabled if and only if name, email and
\* message are non-blank, there is at least one image and the last computed
\* distance is within the radius.
C1_EnabledIffFieldsImagesDistance ==
    phase = "mounted" =>
        (~submitDisabled <=>
            /\ ~Blank(fields.name) /\ ~Blank(fields.email) /\ ~Blank(fields.comments)
            /\ Len(images) >= 1
            /\ lastDistanceWithinRadius)

\* C1, amended: the Submit button is enabled if and only if name, email and
\* message are non-blank, there is at least one image, geoAllowed is true and
\* no submission is in flight; and whenever it is enabled the last computed
\* distance is within the radius.
C1_EnabledIffFieldsImagesGeoAllowedIdle ==
    phase = "mounted" =>
        /\ ~submitDisabled <=>
              (/\ ~Blank(fields.name) /\ ~Blank(fields.email) /\ ~Blank(fields.comments)
               /\ Len(images) >= 1
               /\ geoAllowed
               /\ ~submitting)
        /\ ~submitDisabled => lastDistanceWithinRadius

\* the gate is open, on a position exactly on the boundary
C1_Witness ==
    /\ phase = "mounted"
    /\ ~submitDisabled
    /\ location = Some(boundaryPoint)

----------------------------------------------------------------------------
(* C2 *)

\* C2: the Submit button is disabled whenever name, email or message is
\* blank, the image list is empty or the latest distance check failed; so each
\* of the five closes the gate also when the other four are satisfied.
C2_AnyFailureClosesGate ==
    (/\ phase = "mounted"
     /\ \/ Blank(fields.name)
        \/ Blank(fields.email)
        \/ Blank(fields.comments)
        \/ images = <<>>
        \/ lastDistanceCheckFailed) => submitDisabled

\* the distance check alone closes the gate: fields and images are complete
C2_Witness ==
    /\ phase = "mounted"
    /\ ~Blank(fields.name) /\ ~Blank(fields.email) /\ ~Blank(fields.comments)
    /\ images # <<>>
    /\ ~submitting
    /\ lastDistanceCheckFailed
    /\ submitDisabled

----------------------------------------------------------------------------
(* C3 *)

\* what a completed request r determines
resultAllowed(r) ==
    /\ r.status = "success"
    /\ haversine(r.lat, r.lon, GEOFENCE_CENTER.lat, GEOFENCE_CENTER.lon) <= GEOFENCE_RADIUS_METERS * 10

resultError(r) ==
    IF r.status = "error" THEN deniedMessage
    ELSE IF resultAllowed(r) THEN ""
    ELSE "You are "
         \o ToString(Round(haversine(r.lat, r.lon, GEOFENCE_CENTER.lat, GEOFENCE_CENTER.lon)))
         \o "m from the allowed location."

\* C3: once no position request is outstanding, geoAllowed, geoError and (for
\* a success) location are those of the most recently issued request.
C3_LatestRequestGoverns ==
    (phase = "mounted" /\ requests # <<>> /\ noRequestOutstanding) =>
        LET r == requests[Len(requests)]
        IN  /\ geoAllowed = resultAllowed(r)
            /\ geoError = resultError(r)
            /\ r.status = "success" => location = Some([lat |-> r.lat, lon |-> r.lon])

----------------------------------------------------------------------------
(* C4 *)

\* C4: once the component is torn down, no stream that getUserMedia delivered
\* has a live track.
C4_NoLiveStreamAfterTeardown ==
    phase = "unmounted" => \A s \in 1..Len(streams) : streams[s] = "ended"

----------------------------------------------------------------------------
(* C5 *)

\* C5: the error callback of a position request leaves a non-empty geoError,
\* shown in the status line, with geoAllowed false and the Submit button
\* disabled, whatever the state before it.
C5_ErrorCallbackClosesGate ==
    [][\A i \in 1..Len(requests) :
          errorStep(i) =>
              /\ geoError' # ""
              /\ geoLoading' = FALSE
              /\ statusLine' = geoError'
              /\ geoAllowed' = FALSE
              /\ submitDisabled']_vars

\* a denial shown over an earlier in-geofence result, the form being complete
C5_Witness ==
    /\ phase = "mounted"
    /\ statusLine = deniedMessage
    /\ lastDistanceWithinRadius
    /\ isFormValid
    /\ ~submitting
    /\ submitDisabled

----------------------------------------------------------------------------
(* C6 *)

\* C6: no step taken while location is null changes the image list, and every
\* image of the list carries the coordinate that was current at its capture.
C6_NoCaptureWithoutCoordinate ==
    /\ [][location = Null => images' = images]_vars
    /\ [](images # <<>> => location # Null)
    /\ [](\A k \in 1..Len(images) :
            \E pos \in Positions :
                images[k] = [mediaType |-> "image/jpeg",
                             lat |-> toFixed5(pos.lat), lon |-> toFixed5(pos.lon)])

\* Capture Photo can be pressed on a live video while there is no coordinate
C6_Witness ==
    /\ phase = "mounted"
    /\ capturing
    /\ srcObject # Null
    /\ location = Null
    /\ captureDisabled
    /\ images = <<>>

----------------------------------------------------------------------------
(* C7 *)

\* C7: after a success callback geoAllowed is true exactly when the computed
\* distance is at most 150 m: true at the centre (0 m) and on the boundary
\* (exactly 150 m), false beyond it.
C7_InclusiveBoundary ==
    [][\A i \in 1..Len(requests) :
          successStep(i) =>
              /\ location' # Null
              /\ geoAllowed' = (distanceOf(location') <= 150 * 10)
              /\ (distanceOf(location') = 0 => geoAllowed')
              /\ (distanceOf(location') = 150 * 10 => geoAllowed')
              /\ (distanceOf(location') > 150 * 10 => ~geoAllowed')]_vars

\* the geofence is open on a point exactly 150 m from the centre
C7_Witness ==
    /\ phase = "mounted"
    /\ geoAllowed
    /\ location # Null
    /\ lastDistance = 150 * 10

----------------------------------------------------------------------------
(* C8 *)

\* C8: a success callback with a distance beyond the radius leaves the message
\* with the rounded distance in geoError, geoAllowed false and the Submit button
\* disabled, and keeps the fields, the images and the mounted form; one within
\* the radius leaves geoError empty.
C8_OutOfGeofenceIsReported ==
    [][\A i \in 1..Len(requests) :
          successStep(i) =>
              /\ checkFailed(location') =>
                    /\ geoError' # ""
                    /\ geoError' = "You are " \o ToString(Round(distanceOf(location'))) \o "m from the allowed location."
                    /\ (location' = Some(outsidePoint) =>
                            geoError' = "You are 150m from the allowed location.")
                    /\ geoAllowed' = FALSE
                    /\ submitDisabled'
              /\ withinRadius(location') => geoError' = ""
              /\ fields' = fields /\ images' = images /\ phase' = "mounted"]_vars

\* an out-of-geofence report on a complete form, with a retry still to come
C8_Witness ==
    /\ phase = "mounted"
    /\ geoError = "You are 150m from the allowed location."
    /\ location = Some(outsidePoint)
    /\ isFormValid
    /\ submitDisabled
    /\ ENABLED retryLocation

----------------------------------------------------------------------------
(* C9 *)

\* a step that issues a position request from the mounted form
retryStep == phase = "mounted" /\ Len(requests') = Len(requests) + 1

\* C9: while an error is shown (and the model's bound on requests allows),
\* Retry Location is enabled; it clears geoError and issues a new request; and
\* a success callback inside the geofence sets geoAllowed with an empty
\* geoError, whatever error was shown before.
C9_RetryAfterFailure ==
    /\ []((phase = "mounted" /\ geoError # "" /\ Len(requests) < MaxRequests)
            => ENABLED retryLocation)
    /\ [][retryStep =>
            /\ geoError' = ""
            /\ geoLoading'
            /\ requests' = Append(requests, PendingRequest)]_vars
    /\ [][\A i \in 1..Len(requests) :
            (successStep(i) /\ withinRadius(location')) =>
                (geoAllowed' /\ geoError' = "")]_vars

\* the gate is open again after a failed request and a retry
C9_Witness ==
    /\ phase = "mounted"
    /\ Len(requests) >= 2
    /\ requests[1].status = "error"
    /\ requests[2].status = "success"
    /\ geoAllowed /\ geoError = ""
    /\ ~submitDisabled

----------------------------------------------------------------------------
(* C10 *)

\* the state of a freshly loaded page
freshPage ==
    /\ fields = [name |-> <<>>, email |-> <<>>, comments |-> <<>>]
    /\ images = <<>>
    /\ location = Null
    /\ geoAllowed = FALSE
    /\ geoError = ""
    /\ submitting = FALSE
    /\ geoLoading = FALSE
    /\ requests = <<>>
    /\ phase = "rendered"

\* C10: a submit sets submitting and starts the one timer; when the timer
\* fires the page is a fresh one (fields and images empty, location null,
\* geoAllowed and submitting false), and the fresh page issues the page-load
\* position request.
C10_SubmitEndsInReset ==
    /\ [][timers' > timers => (submitting' /\ ~submitting /\ timers' = 1)]_vars
    /\ [](submitting <=> timers > 0)
    /\ [][timers > 0 /\ timers' = 0 => freshPage']_vars
    /\ [](phase = "rendered" => (freshPage /\ ENABLED mountEffect))
    /\ [][phase = "rendered" /\ phase' # "rendered" =>
            (requests' = <<PendingRequest>> /\ geoLoading')]_vars

\* a submission in flight, with data to discard
C10_Witness ==
    /\ submitting
    /\ timers = 1
    /\ images # <<>>
    /\ ~Blank(fields.name)
    /\ location # Null

----------------------------------------------------------------------------
(* C11 *)

\* C11: a position request is issued by the mount effect (the first of the
\* page) and by each Retry Location press (one more), and by no other step;
\* field edits, captures and callbacks leave the number of requests as it is.
C11_RequestsOnLoadAndRetryOnly ==
    /\ [][Len(requests') > Len(requests) =>
            /\ mountEffect \/ retryLocation
            /\ requests' = Append(requests, PendingRequest)]_vars
    /\ [][mountEffect => (requests = <<>> /\ Len(requests') = 1)]_vars
    /\ [][(\/ fields' # fields
           \/ images' # images
           \/ \E i \in 1..Len(requests) : successStep(i) \/ errorStep(i))
          => (Len(requests') = Len(requests) \/ phase' = "rendered")]_vars
    /\ [](phase = "rendered" <=> requests = <<>>)

\* one load and one retry, with edits, a capture and both callbacks done
C11_Witness ==
    /\ phase = "mounted"
    /\ Len(requests) = 2
    /\ noRequestOutstanding
    /\ ~Blank(fields.name)
    /\ images # <<>>

----------------------------------------------------------------------------
(* C12 *)

\* C12: a failed camera acquisition sets the camera error text and leaves
\* fields, images, location, geoAllowed and geoError as they are; and while
\* no stream has been acquired no step changes the image list.
C12_CameraFailureBlocksCaptureOnly ==
    /\ [][(phase = "mounted" /\ userMedia = "pending" /\ userMedia' = "rejected") =>
            /\ error' = "Camera access denied or unavailable."
            /\ UNCHANGED formVars]_vars
    /\ [][stream = Null => images' = images]_vars
    /\ [](stream = Null => images = <<>>)

\* the camera failed, a coordinate exists, Capture Photo can be pressed
C12_Witness ==
    /\ phase = "mounted"
    /\ userMedia = "rejected"
    /\ error # ""
    /\ capturing
    /\ ~captureDisabled
    /\ geoAllowed
    /\ ~Blank(fields.name)
    /\ images = <<>>

----------------------------------------------------------------------------
(* C13 *)

\* C13: every step leaves the image list as it is, or appends one data:image
\* URL at its end, or is the reset to a fresh page.
C13_ImagesAppendOnly ==
    [][\/ images' = images
       \/ /\ Len(images') = Len(images) + 1
          /\ SubSeq(images', 1, Len(images)) = images
          /\ images'[Len(images')].mediaType = "image/jpeg"
       \/ phase' = "rendered" /\ images' = <<>>]_vars

\* two images with different stamps, in the order of their capture
C13_Witness ==
    /\ Len(images) = 2
    /\ images[1] # images[2]
    /\ location # Null
    /\ images[2].lat = toFixed5(location[1].lat)
    /\ images[2].lon = toFixed5(location[1].lon)

----------------------------------------------------------------------------
(* C14 *)

liveStreams == {s \in 1..Len(streams) : streams[s] = "live"}

----------------------------------------------------------------------------
(* C15 *)

\* C15: haversine returns the same distance for a pair of points whichever of
\* the two is passed first.
C15_HaversineSymmetric ==
    (call # Null /\ call.there # Null /\ call.back # Null) => call.there = call.back

\* both orders computed for two distinct points near 60 N, where the cosine
\* factor halves the longitude term
C15_Witness ==
    /\ call # Null
    /\ call.lat1 = 60000000 /\ call.lon1 = 20
    /\ call.lat2 = 60001349 /\ call.lon2 = -1349
    /\ call.there # Null /\ call.back # Null
    /\ call.there[1] > 0
    /\ call.there[1] < haversine(0, 20, 1349, -1349)

----------------------------------------------------------------------------
(* C16 *)

\* C16: whenever geoAllowed is true, location is non-null, the stored
\* location is within 150 m of the centre, and geoError is empty.
C16_AllowedImpliesLocatedInsideNoError ==
    geoAllowed =>
        /\ location # Null
        /\ distanceOf(location) <= GEOFENCE_RADIUS_METERS * 10
        /\ geoError = ""

\* allowed at the boundary point while a retry is outstanding
C16_Witness ==
    /\ phase = "mounted"
    /\ geoAllowed
    /\ location = Some(boundaryPoint)
    /\ geoLoading
    /\ Len(requests) = 2

----------------------------------------------------------------------------
(* C17 *)

----------------------------------------------------------------------------
(* C18 *)

someRequestOutstanding == \E i \in 1..Len(requests) : requests[i].status = "pending"

\* C18: on the mounted page geoLoading is true exactly when some position
\* request has been issued and has not called back.
C18_LoadingIffRequestOutstanding ==
    phase = "mounted" => (geoLoading <=> someRequestOutstanding)

----------------------------------------------------------------------------
(* C19 *)

\* C19: the error callback of a position request leaves location, the fields
\* and the images as they are; location, once non-null, stays non-null until
\* the reset; and a capture taken while the denial is shown is stamped with
\* the stored coordinate.
C19_FailureKeepsCoordinate ==
    /\ [][\A i \in 1..Len(requests) :
            errorStep(i) =>
                /\ UNCHANGED <<location, fields, images, submitting, cameraVars>>
                /\ (location # Null => location' # Null)]_vars
    /\ [][location # Null => (location' # Null \/ phase' = "rendered")]_vars
    /\ [][(geoError = deniedMessage /\ location # Null /\ images' # images
           /\ phase' # "rendered") =>
            images' = Append(images, [mediaType |-> "image/jpeg",
                                      lat |-> toFixed5(location[1].lat),
                                      lon |-> toFixed5(location[1].lon)])]_vars

\* the retry failed after a success at the boundary point; an image is
\* stamped with that point
C19_Witness ==
    /\ phase = "mounted"
    /\ Len(requests) = 2
    /\ requests[1].status = "success"
    /\ requests[2].status = "error"
    /\ statusLine = deniedMessage
    /\ location = Some(boundaryPoint)
    /\ ~captureDisabled
    /\ images = <<[mediaType |-> "image/jpeg",
                   lat |-> toFixed5(boundaryPoint.lat),
                   lon |-> toFixed5(boundaryPoint.lon)]>>

----------------------------------------------------------------------------
(* C20 *)

\* C20: after the mount effect has issued the first request, the status line
\* reads 'Location OK' only in states where geoAllowed is true.
C20_LocationOkOnlyWhenAllowed ==
    (phase # "rendered" /\ statusLine = "Location OK") => geoAllowed

\* 'Location OK' shown while a retry is still outstanding
C20_Witness ==
    /\ phase = "mounted"
    /\ statusLine = "Location OK"
    /\ geoAllowed
    /\ someRequestOutstanding

====
